---- MODULE Spec2Model ----
(***************************************************************************)
(* RiseAble accessibility settings: the /api/accessibility route handlers  *)
(* (GET and PUT of src/app/api/accessibility/route.ts), the zod schema     *)
(* they validate with, and the two tables they read and write.             *)
(*                                                                         *)
(* Every `await` on the database is one atomic step of a request; the code *)
(* between two awaits runs with the step that follows it.  Requests are    *)
(* served concurrently (Spec) or one after the other (SpecSeq).            *)
(***************************************************************************)
EXTENDS Integers, Sequences, FiniteSets, TLC

\* ---------------------------------------------------------------- bounds
\* Number of requests served concurrently in Spec.
NumReq == 2
\* Largest value of the database clock (timestamps are 0..MaxClock).
MaxClock == 2
\* Largest number of non-boolean values in a PUT body of SpecSeq.
MaxDefects == 1
\* Largest number of SpeechRecognition objects the voice hook makes.
MaxRecognizers == 3
\* Largest number of characters of a transcript.
MaxLen == 3
\* Largest length of the chat's list at which a message can be sent.
MaxMessages == 4

\* ------------------------------------------------------------ the schema
\* The five flags, in the order the schema declares them.
Fields == <<"voiceNavigation", "screenReader", "highContrast", "largeText", "keyboardNav">>

FieldSet == {Fields[i] : i \in DOMAIN Fields}

\* What a JSON body can hold under a key: the two booleans, nothing (the key
\* is absent, zod sees undefined), or a value of another JSON type.
JsonVals == {"true", "false", "undefined", "string", "number", "null"}

\* z.boolean().default(false): undefined takes the default, a boolean passes,
\* everything else is an invalid_type issue.
ZodBooleanMutOk(v) == v \in {"true", "false", "undefined", "null"}

ZodBooleanOk(v) == v \in {"true", "false", "undefined"}

ZodBooleanMutValue(v) == FALSE

ZodBooleanValue(v) == IF v = "undefined" THEN FALSE ELSE v = "true"

\* One entry of ZodError.errors for a field of the wrong type.
ZodIssue(f, v) ==
  [code |-> "invalid_type", expected |-> "boolean", received |-> v, path |-> <<f>>]

\* AccessibilitySettingsSchema.parse(obj): the issues in field order, and
\* the validated data (meaningful when there is no issue).
SchemaIssues(obj) ==
  LET bad == SelectSeq(Fields, LAMBDA f : ~ZodBooleanOk(obj[f]))
  IN  [i \in 1..Len(bad) |-> ZodIssue(bad[i], obj[bad[i]])]

SchemaData(obj) == [f \in FieldSet |-> ZodBooleanValue(obj[f])]

\* z.object({...}) without .strict() or .passthrough(): keys the schema does
\* not declare are stripped from the data and raise no issue.
UnknownKeysMut == "strict"

UnknownKeys == "strip"

UnrecognizedKeys ==
  [code |-> "unrecognized_keys", expected |-> "", received |-> "", path |-> <<>>]

\* The issues of a parsed body: those of the five fields, and under "strict"
\* one more for the keys the schema does not declare.
BodyIssues(b) ==
  SchemaIssues(b.val) \o (IF b.extra /\ UnknownKeys = "strict" THEN <<UnrecognizedKeys>> ELSE <<>>)

\* --------------------------------------------------------------- requests
DEMO_USER == "demo-user-1"

UserIds == {DEMO_USER, "u2"}

\* req.headers.get('x-user-id') of a request without the header.
NoHeader == "<null>"

\* const userId = req.headers.get('x-user-id') || 'demo-user-1'
HeaderUserIdMut(h) == DEMO_USER

HeaderUserId(h) == IF h = NoHeader \/ h = "" THEN DEMO_USER ELSE h

AllFalse == [f \in FieldSet |-> FALSE]

\* The flags GET creates a missing record with.
DefaultFlagsMut == [AllFalse EXCEPT !["keyboardNav"] = TRUE]

DefaultFlags ==
  [voiceNavigation |-> FALSE, screenReader |-> FALSE, highContrast |-> FALSE,
   largeText |-> FALSE, keyboardNav |-> FALSE]

NoObject == [f \in FieldSet |-> "undefined"]

\* A request body: text that is not JSON, or a JSON object (val: what it
\* holds under the five keys; extra: it has a key besides the five).
MalformedBody == [kind |-> "malformed", val |-> NoObject, extra |-> FALSE]

NoBody == [kind |-> "none", val |-> NoObject, extra |-> FALSE]

ObjectBody(o) == [kind |-> "object", val |-> o, extra |-> FALSE]

\* The body the backend guide sends: the five flags and "signLanguage".
ExtraKeyBody(o) == [kind |-> "object", val |-> o, extra |-> TRUE]

Defects(o) == Cardinality({f \in FieldSet : o[f] \notin {"true", "false"}})

\* Bodies of the sequential specification: every object with at most
\* MaxDefects non-boolean values (so all 32 valid payloads), and non-JSON.
SeqBodies ==
  {ObjectBody(o) : o \in {x \in [FieldSet -> JsonVals] : Defects(x) <= MaxDefects}}
    \cup {MalformedBody}

\* Every valid payload with one more key, and one with a key left out too.
ExtraBodies ==
  {ExtraKeyBody(o) : o \in [FieldSet -> {"true", "false"}]}
    \cup {ExtraKeyBody([f \in FieldSet |-> IF f = "largeText" THEN "undefined" ELSE "true"])}

\* The two payloads the API reference sends with curl.
PayloadA == [NoObject EXCEPT !["voiceNavigation"] = "true", !["screenReader"] = "false",
                             !["highContrast"] = "true", !["largeText"] = "false",
                             !["keyboardNav"] = "true"]

PayloadB == [NoObject EXCEPT !["voiceNavigation"] = "true", !["screenReader"] = "true",
                             !["highContrast"] = "false", !["largeText"] = "true",
                             !["keyboardNav"] = "false"]

\* Bodies of the concurrent specification: two valid payloads that differ in
\* four flags, a payload with a string where a boolean belongs, a payload
\* without one of the keys, and text that is not JSON.
RaceBodies ==
  {ObjectBody(PayloadA), ObjectBody(PayloadB),
   ObjectBody([PayloadA EXCEPT !["largeText"] = "string"]),
   ObjectBody([PayloadB EXCEPT !["screenReader"] = "undefined"]),
   MalformedBody}

\* No record: what findUnique returns as null.
NoRow == [id |-> 0, userId |-> "", flags |-> AllFalse, createdAt |-> 0, updatedAt |-> 0]

IdleReq ==
  [kind |-> "none", hdr |-> NoHeader, body |-> NoBody, pc |-> "idle", userId |-> "",
   status |-> 0, result |-> NoRow, details |-> <<>>, error |-> "", alone |-> TRUE]

NoPut == [known |-> FALSE, valid |-> FALSE, flags |-> AllFalse, before |-> 0]

VARIABLES
  User,                  \* table "User": the ids of its rows
  AccessibilitySettings, \* table "AccessibilitySettings": its rows
  now,                   \* the database clock
  nextId,                \* the next generated AccessibilitySettings.id
  req,                   \* the requests: inputs, position, response
  lastPut,               \* history: per user, the last PUT that wrote
  settings,              \* useAccessibility: the state "settings"
  isLoading,             \* useAccessibility: the state "isLoading"
  error,                 \* useAccessibility: the state "error"
  hook,                  \* useAccessibility: what the last render closed over
  fetches,               \* useAccessibility: the fetch() calls not yet settled
  lastCall,              \* history: the last call of updateSetting(s)
  lastSettled,           \* history: the last fetch to settle, and how
  phase,                 \* history of SpecApp: how the session has gone
  lastWrite,             \* history of SpecWrites: the write issued last
  root,                  \* document.documentElement: its classes and attributes
  keyboard,              \* useKeyboardDetection: the running effect's closure
  applied,               \* the settings of the dashboard's last render
  lastEvent,             \* history: what the last step of SpecDom was
  voice,                 \* useVoiceNavigation: enabled, isListening, the browser
  recognizers,           \* the SpeechRecognition objects the hook has made
  activated,             \* history: what the last onresult did
  lastVoice,             \* history: what the last step of SpecVoice was
  messages,              \* ChatbotPage: the state "messages"
  input,                 \* ChatbotPage: the state "input"
  page,                  \* ChatbotPage: what the last render closed over
  timers                 \* ChatbotPage: the replies setTimeout holds, in order

serverVars == <<User, AccessibilitySettings, now, nextId, req, lastPut>>

clientVars ==
  <<settings, isLoading, error, hook, fetches, lastCall, lastSettled, phase, lastWrite>>

domVars == <<root, keyboard, applied, lastEvent>>

voiceVars == <<voice, recognizers, activated, lastVoice>>

chatVars == <<messages, input, page, timers>>

vars == <<serverVars, clientVars, domVars, voiceVars, chatVars>>

Slots == 1..NumReq

\* ------------------------------------------------------------- the tables
\* prisma.accessibilitySettings.findUnique({ where: { userId } })
FindSettings(u) ==
  IF \E s \in AccessibilitySettings : s.userId = u
  THEN CHOOSE s \in AccessibilitySettings : s.userId = u
  ELSE NoRow

\* UNIQUE INDEX "AccessibilitySettings_userId_key": an insert for u is refused
\* when a row for u exists.
SettingsUserIdKeyMut(u) == FALSE

SettingsUserIdKey(u) == \E s \in AccessibilitySettings : s.userId = u

\* FOREIGN KEY "AccessibilitySettings_userId_fkey": the user row must exist.
SettingsUserIdFkey(u) == u \in User

\* The timestamps a write at this moment can carry: the clock does not go back.
Stamps == {t \in {now, now + 1} : t <= MaxClock}

\* INSERT of a settings row (createdAt DEFAULT CURRENT_TIMESTAMP, updatedAt set
\* by the client to the same instant).
NewRow(u, flags, t) ==
  [id |-> nextId, userId |-> u, flags |-> flags, createdAt |-> t, updatedAt |-> t]

\* upsert's update branch: update: validatedData replaces all five flags.
UpdatedRowMutCreated(s, data, t) ==
  [s EXCEPT !.flags = data, !.createdAt = t, !.updatedAt = t]

UpdatedRowMut(s, data, t) ==
  [s EXCEPT !.flags = [f \in FieldSet |-> s.flags[f] \/ data[f]], !.updatedAt = t]

UpdatedRow(s, data, t) == [s EXCEPT !.flags = data, !.updatedAt = t]

\* ------------------------------------------------------------- responses
Respond(r, status, row, details, message) ==
  [req[r] EXCEPT !.pc = "done", !.status = status, !.result = row,
                 !.details = details, !.error = message]

\* ---------------------------------------------------------------- actions
\* route.ts 17-27 (GET) and 83-93 (PUT): the request arrives, the handler
\* reads the header and looks the user up.
Arrive(r, kind, h, b) ==
  LET u == HeaderUserId(h)
      q == [IdleReq EXCEPT !.kind = kind, !.hdr = h, !.body = b, !.userId = u]
  IN  IF u = ""
      THEN [q EXCEPT !.pc = "done", !.status = 401,
                     !.error = "Unauthorized: No user ID provided"]
      ELSE [q EXCEPT !.pc = IF u \in User THEN "userOk" ELSE "userAbsent"]

\* History: a request is served alone when no other request of its user is
\* in service at any moment between its arrival and its response.
InService(r, u) ==
  {q \in Slots \ {r} : req[q].pc \notin {"idle", "done"} /\ req[q].userId = u}

Admit(r, new) ==
  [q \in Slots |->
     IF q = r THEN [new EXCEPT !.alone = InService(r, new.userId) = {}]
     ELSE IF q \in InService(r, new.userId) THEN [req[q] EXCEPT !.alone = FALSE]
     ELSE req[q]]

GET_FindUser(r, headers) ==
  /\ req[r].pc = "idle"
  /\ \A q \in Slots : q < r => req[q].pc # "idle"
  /\ \E h \in headers : req' = Admit(r, Arrive(r, "GET", h, NoBody))
  /\ UNCHANGED <<User, AccessibilitySettings, now, nextId, lastPut>>
  /\ UNCHANGED <<clientVars, domVars, voiceVars, chatVars>>

PUT_FindUser(r, headers, bodies) ==
  /\ req[r].pc = "idle"
  /\ \A q \in Slots : q < r => req[q].pc # "idle"
  /\ \E h \in headers, b \in bodies :
       req' = Admit(r, Arrive(r, "PUT", h, b))
  /\ UNCHANGED <<User, AccessibilitySettings, now, nextId, lastPut>>
  /\ UNCHANGED <<clientVars, domVars, voiceVars, chatVars>>

\* prisma.user.create: the primary key refuses a second row with the id, the
\* handler's catch turns the error into a 500.
CreateUser(r) ==
  IF req[r].userId \in User
  THEN /\ req' = [req EXCEPT ![r] = Respond(r, 500, NoRow, <<>>, "P2002")]
       /\ UNCHANGED User
  ELSE /\ User' = User \cup {req[r].userId}
       /\ req' = [req EXCEPT ![r].pc = "userOk"]

\* route.ts 28-32
GET_CreateUser(r) ==
  /\ req[r].kind = "GET"
  /\ req[r].pc = "userAbsent"
  /\ CreateUser(r)
  /\ UNCHANGED <<AccessibilitySettings, now, nextId, lastPut>>
  /\ UNCHANGED <<clientVars, domVars, voiceVars, chatVars>>

\* route.ts 94-96
PUT_CreateUser(r) ==
  /\ req[r].kind = "PUT"
  /\ req[r].pc = "userAbsent"
  /\ CreateUser(r)
  /\ UNCHANGED <<AccessibilitySettings, now, nextId, lastPut>>
  /\ UNCHANGED <<clientVars, domVars, voiceVars, chatVars>>

\* route.ts 35-40 and 53: look the settings up, answer with them when found.
GET_FindSettings(r) ==
  /\ req[r].kind = "GET"
  /\ req[r].pc = "userOk"
  /\ LET s == FindSettings(req[r].userId)
     IN  req' = [req EXCEPT ![r] =
                   IF s = NoRow THEN [req[r] EXCEPT !.pc = "settingsAbsent"]
                   ELSE Respond(r, 200, s, <<>>, "")]
  /\ UNCHANGED <<User, AccessibilitySettings, now, nextId, lastPut>>
  /\ UNCHANGED <<clientVars, domVars, voiceVars, chatVars>>

\* route.ts 41-53: create the default record and answer with it.
GET_CreateSettingsMut(r) ==
  /\ req[r].kind = "GET"
  /\ req[r].pc = "settingsAbsent"
  /\ \E t \in Stamps :
       LET u == req[r].userId
           s == NewRow(u, DefaultFlags, t)
       IN  /\ AccessibilitySettings' =
                {x \in AccessibilitySettings : x.userId # u} \cup {s}
           /\ now' = t
           /\ nextId' = nextId + 1
           /\ req' = [req EXCEPT ![r] = Respond(r, 200, s, <<>>, "")]
  /\ UNCHANGED <<User, lastPut>>
  /\ UNCHANGED <<clientVars, domVars, voiceVars, chatVars>>

GET_CreateSettings(r) ==
  /\ req[r].kind = "GET"
  /\ req[r].pc = "settingsAbsent"
  /\ LET u == req[r].userId
     IN  IF SettingsUserIdKey(u)
         THEN /\ req' = [req EXCEPT ![r] = Respond(r, 500, NoRow, <<>>, "P2002")]
              /\ UNCHANGED <<AccessibilitySettings, now, nextId>>
         ELSE IF ~SettingsUserIdFkey(u)
         THEN /\ req' = [req EXCEPT ![r] = Respond(r, 500, NoRow, <<>>, "P2003")]
              /\ UNCHANGED <<AccessibilitySettings, now, nextId>>
         ELSE \E t \in Stamps :
                LET s == NewRow(u, DefaultFlags, t)
                IN  /\ AccessibilitySettings' = AccessibilitySettings \cup {s}
                    /\ now' = t
                    /\ nextId' = nextId + 1
                    /\ req' = [req EXCEPT ![r] = Respond(r, 200, s, <<>>, "")]
  /\ UNCHANGED <<User, lastPut>>
  /\ UNCHANGED <<clientVars, domVars, voiceVars, chatVars>>

\* What the history keeps of a PUT that wrote: the payload as the client sent
\* it, when it was five booleans, and the record's updatedAt before the write.
PutMark(b, old) ==
  [known |-> TRUE, valid |-> Defects(b.val) = 0,
   flags |-> [f \in FieldSet |-> b.val[f] = "true"],
   before |-> old.updatedAt]

\* route.ts 99-112 and the catch, 113-136: parse the body, validate it, upsert.
PUT_Upsert(r) ==
  /\ req[r].kind = "PUT"
  /\ req[r].pc = "userOk"
  /\ LET u == req[r].userId
         b == req[r].body
         old == FindSettings(u)
     IN  IF b.kind # "object"
         THEN \* req.json() throws a SyntaxError, which is no ZodError
              /\ req' = [req EXCEPT ![r] = Respond(r, 500, NoRow, <<>>, "SyntaxError")]
              /\ UNCHANGED <<AccessibilitySettings, now, nextId, lastPut>>
         ELSE IF BodyIssues(b) # <<>>
         THEN /\ req' = [req EXCEPT ![r] =
                           Respond(r, 400, NoRow, BodyIssues(b), "Validation error")]
              /\ UNCHANGED <<AccessibilitySettings, now, nextId, lastPut>>
         ELSE IF ~SettingsUserIdFkey(u)
         THEN /\ req' = [req EXCEPT ![r] = Respond(r, 500, NoRow, <<>>, "P2003")]
              /\ UNCHANGED <<AccessibilitySettings, now, nextId, lastPut>>
         ELSE \E t \in Stamps :
                LET s == IF SettingsUserIdKey(u)
                         THEN UpdatedRow(old, SchemaData(b.val), t)
                         ELSE NewRow(u, SchemaData(b.val), t)
                IN  /\ AccessibilitySettings' =
                         (AccessibilitySettings \ {x \in AccessibilitySettings :
                                                     x.userId = u /\ SettingsUserIdKey(u)})
                           \cup {s}
                    /\ now' = t
                    /\ nextId' = IF SettingsUserIdKey(u) THEN nextId ELSE nextId + 1
                    /\ lastPut' = [lastPut EXCEPT ![u] = PutMark(b, old)]
                    /\ req' = [req EXCEPT ![r] = Respond(r, 200, s, <<>>, "")]
  /\ UNCHANGED User
  /\ UNCHANGED <<clientVars, domVars, voiceVars, chatVars>>

\* The response has been delivered; the next request can be served.
Forget(r) ==
  /\ req[r].pc = "done"
  /\ req' = [req EXCEPT ![r] = IdleReq]
  /\ UNCHANGED <<User, AccessibilitySettings, now, nextId, lastPut>>
  /\ UNCHANGED <<clientVars, domVars, voiceVars, chatVars>>

\* ON DELETE CASCADE of "AccessibilitySettings_userId_fkey": the settings rows
\* that are left when the row of user u is deleted.
CascadeMut(u) == AccessibilitySettings

Cascade(u) == {s \in AccessibilitySettings : s.userId # u}

\* DELETE FROM "User" WHERE "id" = u, by whoever administers the database:
\* no handler of the route deletes a user.  Requests of u that have found
\* the user go on, and meet the foreign key.
DeleteUser(u) ==
  /\ u \in User
  /\ User' = User \ {u}
  /\ AccessibilitySettings' = Cascade(u)
  /\ UNCHANGED <<now, nextId, req, lastPut>>
  /\ UNCHANGED <<clientVars, domVars, voiceVars, chatVars>>

\* ------------------------------------------------- the client: constants
\* part_004 6-12
DEFAULT_SETTINGS_Mut == [AllFalse EXCEPT !["largeText"] = TRUE]

DEFAULT_SETTINGS ==
  [voiceNavigation |-> FALSE, screenReader |-> FALSE, highContrast |-> FALSE,
   largeText |-> FALSE, keyboardNav |-> FALSE]

\* useAccessibility(userId?): the argument left out, and the hook before its
\* first render.
Undefined == "<undefined>"

Unmounted == "<unmounted>"

HookUserIds == {Undefined, "u2"}

\* 'x-user-id': userId || 'demo-user-1'
FetchUserId(u) == IF u = Undefined \/ u = "" THEN DEMO_USER ELSE u

\* useState<string | null>(null)
NoError == "<null>"

\* A fetch(): the method, the x-user-id header, the flags of the body (PUT).
NoFetch == [kind |-> "none", userId |-> "", data |-> DEFAULT_SETTINGS]

\* History: how the fetch that settled last did settle.
NoneSettled == "none"

\* History: the function called last and, for updateSetting(key, value),
\* the pair key :> value.
NoCall == [op |-> "none", arg |-> <<>>]

\* History: the slot of the write issued last while it is in flight, and
\* how that write stands ("none": no write was issued).
NoWrite == [slot |-> 0, state |-> "none"]

\* --------------------------------------------- the document: constants
\* document.documentElement, as far as the hooks touch it: the set of its
\* classes and the set of its attributes (each is set to 'true').
NoMarkers == [classList |-> {}, attributes |-> {}]

\* ------------------------------------------ voice navigation: constants
\* window.SpeechRecognition || window.webkitSpeechRecognition before the hook
\* has read it for the first time.
Unread == "<unread>"

\* History: no onresult has run; no event of the hook has happened.
NoResult == [transcript |-> <<>>, document |-> <<>>, clicked |-> <<>>]

NoEvent == [type |-> "mount", recognizer |-> 0]

\* ------------------------------------------------ the chatbot: constants
\* part_000 20-28: the list the page starts with.
Greeting == <<[id |-> 1, role |-> "assistant"]>>

Init ==
  /\ User = {}
  /\ AccessibilitySettings = {}
  /\ now = 0
  /\ nextId = 1
  /\ req = [r \in Slots |-> IdleReq]
  /\ lastPut = [u \in UserIds |-> NoPut]
  /\ settings = DEFAULT_SETTINGS
  /\ isLoading = TRUE
  /\ error = NoError
  /\ hook = [settings |-> DEFAULT_SETTINGS, userId |-> Unmounted]
  /\ fetches = [r \in Slots |-> NoFetch]
  /\ lastCall = NoCall
  /\ lastSettled = NoneSettled
  /\ phase = "start"
  /\ lastWrite = NoWrite
  /\ root = NoMarkers
  /\ keyboard = [forceEnable |-> FALSE, autoEnabled |-> FALSE]
  /\ applied = DEFAULT_SETTINGS
  /\ lastEvent = "mount"
  /\ voice = [enabled |-> FALSE, isListening |-> FALSE, SpeechRecognition |-> Unread]
  /\ recognizers = <<>>
  /\ activated = NoResult
  /\ lastVoice = NoEvent
  /\ messages = Greeting
  /\ input = <<>>
  /\ page = [messages |-> Greeting, input |-> <<>>]
  /\ timers = <<>>

\* Concurrent requests, each served once.
Headers == UserIds \cup {NoHeader}

Next ==
  \E r \in Slots :
    \/ GET_FindUser(r, Headers)
    \/ GET_CreateUser(r)
    \/ GET_FindSettings(r)
    \/ GET_CreateSettings(r)
    \/ PUT_FindUser(r, Headers, RaceBodies)
    \/ PUT_CreateUser(r)
    \/ PUT_Upsert(r)

Spec == Init /\ [][Next]_vars

\* One request at a time, any number of them, with or without the header.
\* The body is read after the header: the requests without a header carry
\* the few bodies of RaceBodies, those with one every body of SeqBodies and
\* of ExtraBodies.
SeqHeaders == {DEMO_USER, NoHeader}

NextSeq ==
  \/ GET_FindUser(1, SeqHeaders)
  \/ GET_CreateUser(1)
  \/ GET_FindSettings(1)
  \/ GET_CreateSettings(1)
  \/ PUT_FindUser(1, {DEMO_USER}, SeqBodies)
  \/ PUT_FindUser(1, {NoHeader}, RaceBodies)
  \/ PUT_FindUser(1, {DEMO_USER}, ExtraBodies)
  \/ PUT_CreateUser(1)
  \/ PUT_Upsert(1)
  \/ Forget(1)

SpecSeq == Init /\ [][NextSeq]_vars

\* Concurrent requests over a database whose users can be deleted.  One
\* payload that validates and one that does not.
DbBodies == {ObjectBody(PayloadA), ObjectBody([PayloadA EXCEPT !["largeText"] = "string"])}

NextDb ==
  \/ \E r \in Slots :
       \/ GET_FindUser(r, Headers)
       \/ GET_CreateUser(r)
       \/ GET_FindSettings(r)
       \/ GET_CreateSettings(r)
       \/ PUT_FindUser(r, Headers, DbBodies)
       \/ PUT_CreateUser(r)
       \/ PUT_Upsert(r)
  \/ \E u \in UserIds : DeleteUser(u)

SpecDb == Init /\ [][NextDb]_vars

\* ------------------------------------------------------------ the client
\* The useAccessibility hook (part_004).  A state setter takes effect at
\* once on the state; the callbacks the hook hands out see the state of the
\* render that made them (hook), and a render is a step of its own.  A
\* fetch() occupies a slot until its promise settles.
\*
\* The flags the user interface of this model toggles, and the responses of
\* a load, range over ClientKeys; the other flags stay false.
ClientKeys == {"highContrast", "largeText"}

ClientFlags == {x \in [FieldSet -> BOOLEAN] : \A f \in FieldSet \ ClientKeys : ~x[f]}

\* Partial<AccessibilitySettings>: some of the keys, each with a value.
Partials == UNION {[K -> BOOLEAN] : K \in SUBSET ClientKeys}

\* How a fetch() settles: a 2xx response, another response, or a rejection
\* (the request or the response was lost).
Outcomes == {"ok", "notOk", "rejected"}

\* The message the catch records: that of the Error thrown for a response
\* that is not ok, or that of fetch's own TypeError.
FetchError(outcome) ==
  IF outcome = "notOk" THEN "Failed to fetch settings: 500" ELSE "Failed to fetch"

SaveErrorMut(outcome) == NoError

SaveError(outcome) ==
  IF outcome = "notOk" THEN "Failed to save settings: 500" ELSE "Failed to fetch"

\* part_004 39-67: what fetchSettings leaves in the three states once the
\* response is in (data: the five flags of a 2xx response).
FetchResultMut(outcome, data) ==
  IF outcome = "ok"
  THEN [settings |-> data, error |-> NoError, isLoading |-> FALSE]
  ELSE [settings |-> DEFAULT_SETTINGS, error |-> FetchError(outcome), isLoading |-> TRUE]

FetchResult(outcome, data) ==
  IF outcome = "ok"
  THEN [settings |-> data, error |-> NoError, isLoading |-> FALSE]
  ELSE [settings |-> DEFAULT_SETTINGS, error |-> FetchError(outcome), isLoading |-> FALSE]

\* The slot a new fetch() takes: the first free one.
FreeSlot(r) ==
  /\ fetches[r].kind = "none"
  /\ \A q \in Slots : q < r => fetches[q].kind # "none"

\* part_004 28-37 and 70: the effect starts a load.
fetchSettings(r, u) ==
  /\ FreeSlot(r)
  /\ isLoading' = TRUE
  /\ fetches' = [fetches EXCEPT ![r] =
                    [kind |-> "GET", userId |-> FetchUserId(u), data |-> DEFAULT_SETTINGS]]
  /\ UNCHANGED <<settings, error, lastCall, lastSettled>>

\* The component renders with the argument u for the first time, or with
\* another u than before: the effect's dependency [userId] has changed, the
\* effect runs.
RenderWithUser(r, u) ==
  /\ hook.userId # u
  /\ hook' = [settings |-> settings, userId |-> u]
  /\ fetchSettings(r, u)

\* A render after a state change: the callbacks close over the new state.
Render ==
  /\ hook.userId # Unmounted
  /\ hook.settings # settings
  /\ hook' = [hook EXCEPT !.settings = settings]
  /\ UNCHANGED <<settings, isLoading, error, fetches, lastCall, lastSettled>>

\* part_004 94-106: persistSettings up to its await.
persistSettings(r, data, u) ==
  /\ FreeSlot(r)
  /\ fetches' = [fetches EXCEPT ![r] =
                    [kind |-> "PUT", userId |-> FetchUserId(u), data |-> data]]

\* part_004 74-81
updateSetting(r, key, value) ==
  /\ hook.userId # Unmounted
  /\ LET newSettings == [hook.settings EXCEPT ![key] = value]
     IN  /\ settings' = newSettings
         /\ persistSettings(r, newSettings, hook.userId)
  /\ lastCall' = [op |-> "updateSetting", arg |-> key :> value]
  /\ UNCHANGED <<isLoading, error, hook, lastSettled>>

\* part_004 84-91
updateSettings(r, newSettings) ==
  /\ hook.userId # Unmounted
  /\ LET merged == [f \in FieldSet |->
                      IF f \in DOMAIN newSettings THEN newSettings[f] ELSE hook.settings[f]]
     IN  /\ settings' = merged
         /\ persistSettings(r, merged, hook.userId)
  /\ lastCall' = [op |-> "updateSettings", arg |-> <<>>]
  /\ UNCHANGED <<isLoading, error, hook, lastSettled>>

\* part_004 39-67: the load's fetch settles, fetchSettings runs on.
fetchSettled(r, outcome, data) ==
  /\ fetches[r].kind = "GET"
  /\ lastSettled' = outcome
  /\ settings' = FetchResult(outcome, data).settings
  /\ error' = FetchResult(outcome, data).error
  /\ isLoading' = FetchResult(outcome, data).isLoading
  /\ fetches' = [fetches EXCEPT ![r] = NoFetch]
  /\ UNCHANGED <<hook, lastCall>>

\* part_004 108-123: the write's fetch settles, persistSettings runs on.
persistSettledMut(r, outcome) ==
  /\ fetches[r].kind = "PUT"
  /\ lastSettled' = outcome
  /\ error' = IF outcome = "ok" THEN NoError ELSE SaveError(outcome)
  /\ settings' = IF outcome = "ok" THEN settings ELSE DEFAULT_SETTINGS
  /\ fetches' = [fetches EXCEPT ![r] = NoFetch]
  /\ UNCHANGED <<isLoading, hook, lastCall>>

persistSettled(r, outcome) ==
  /\ fetches[r].kind = "PUT"
  /\ lastSettled' = outcome
  /\ error' = IF outcome = "ok" THEN NoError ELSE SaveError(outcome)
  /\ fetches' = [fetches EXCEPT ![r] = NoFetch]
  /\ UNCHANGED <<settings, isLoading, hook, lastCall>>

\* The hook alone: every fetch settles in any of the three ways, a load
\* that succeeds brings any flags.  Every load settles (the assumption of
\* the loading claim) and the event loop runs what follows its await.
Client_RenderWithUser(r) ==
  /\ \E u \in HookUserIds : RenderWithUser(r, u)
  /\ UNCHANGED <<serverVars, phase, lastWrite, domVars, voiceVars, chatVars>>

Client_Render ==
  /\ Render
  /\ UNCHANGED <<serverVars, phase, lastWrite, domVars, voiceVars, chatVars>>

Client_updateSetting(r) ==
  /\ \E key \in ClientKeys, value \in BOOLEAN : updateSetting(r, key, value)
  /\ UNCHANGED <<serverVars, phase, lastWrite, domVars, voiceVars, chatVars>>

Client_updateSettings(r) ==
  /\ \E newSettings \in Partials : updateSettings(r, newSettings)
  /\ UNCHANGED <<serverVars, phase, lastWrite, domVars, voiceVars, chatVars>>

Client_fetchSettled(r) ==
  /\ \E outcome \in Outcomes, data \in ClientFlags : fetchSettled(r, outcome, data)
  /\ UNCHANGED <<serverVars, phase, lastWrite, domVars, voiceVars, chatVars>>

Client_persistSettled(r) ==
  /\ \E outcome \in Outcomes : persistSettled(r, outcome)
  /\ UNCHANGED <<serverVars, phase, lastWrite, domVars, voiceVars, chatVars>>

NextClient ==
  \/ Client_Render
  \/ \E r \in Slots :
       \/ Client_RenderWithUser(r)
       \/ Client_updateSetting(r)
       \/ Client_updateSettings(r)
       \/ Client_fetchSettled(r)
       \/ Client_persistSettled(r)

SpecClient == Init /\ [][NextClient]_vars

\* The hook with the history of its writes: which write was issued last and
\* whether it has been answered, and how.
Writes_updateSetting(r) ==
  /\ \E key \in ClientKeys, value \in BOOLEAN : updateSetting(r, key, value)
  /\ lastWrite' = [slot |-> r, state |-> "pending"]
  /\ UNCHANGED <<serverVars, phase, domVars, voiceVars, chatVars>>

Writes_updateSettings(r) ==
  /\ \E newSettings \in Partials : updateSettings(r, newSettings)
  /\ lastWrite' = [slot |-> r, state |-> "pending"]
  /\ UNCHANGED <<serverVars, phase, domVars, voiceVars, chatVars>>

Writes_persistSettled(r) ==
  /\ \E outcome \in Outcomes :
       /\ persistSettled(r, outcome)
       /\ lastWrite' = IF lastWrite.slot = r
                       THEN [slot |-> 0, state |-> IF outcome = "ok" THEN "ok" ELSE "failed"]
                       ELSE lastWrite
  /\ UNCHANGED <<serverVars, phase, domVars, voiceVars, chatVars>>

NextWrites ==
  \/ Client_Render
  \/ \E r \in Slots :
       \/ Client_RenderWithUser(r)
       \/ Writes_updateSetting(r)
       \/ Writes_updateSettings(r)
       \/ Client_fetchSettled(r)
       \/ Writes_persistSettled(r)

SpecWrites == Init /\ [][NextWrites]_vars

SpecClientFair ==
  /\ SpecClient
  /\ \A r \in Slots : WF_vars(Client_fetchSettled(r))

\* ------------------------------------------------- the client and the route
\* The dashboard (part_001 58: useAccessibility() without a userId) against
\* the route handlers: fetch() number r is request r of the server, and the
\* request reaches the handler in the step that sends it.  The network loses
\* nothing here: a fetch settles with the handler's response.
\*
\* JSON.stringify(data), as the body the handler parses.
JSONstringify(data) == ObjectBody([f \in FieldSet |-> IF data[f] THEN "true" ELSE "false"])

\* response.ok
ResponseOutcome(r) == IF req[r].status \in 200..299 THEN "ok" ELSE "notOk"

\* The fetch() just called in slot r arrives at the route.
Send(r) ==
  /\ req[r].pc = "idle"
  /\ req' = Admit(r, Arrive(r, fetches'[r].kind, fetches'[r].userId,
                            IF fetches'[r].kind = "PUT"
                            THEN JSONstringify(fetches'[r].data) ELSE NoBody))
  /\ UNCHANGED <<User, AccessibilitySettings, now, nextId, lastPut>>

\* The response of request r has been read by the client.
Receive(r) ==
  /\ req[r].pc = "done"
  /\ req' = [req EXCEPT ![r] = IdleReq]
  /\ UNCHANGED <<User, AccessibilitySettings, now, nextId, lastPut>>

\* History: "loaded" from the moment the load has succeeded, provided no
\* update was called before; "spoiled" once an update was called before
\* that moment, or a load or a write has failed.
AfterUpdate == IF phase = "loaded" THEN "loaded" ELSE "spoiled"

AfterSettled(outcome) ==
  IF outcome # "ok" THEN "spoiled" ELSE IF phase = "start" THEN "loaded" ELSE phase

App_Mount(r) ==
  /\ RenderWithUser(r, Undefined)
  /\ Send(r)
  /\ UNCHANGED <<phase, lastWrite, domVars, voiceVars, chatVars>>

App_Render ==
  /\ Render
  /\ UNCHANGED <<serverVars, phase, lastWrite, domVars, voiceVars, chatVars>>

App_updateSetting(r) ==
  /\ \E key \in ClientKeys, value \in BOOLEAN : updateSetting(r, key, value)
  /\ Send(r)
  /\ phase' = AfterUpdate
  /\ UNCHANGED <<lastWrite, domVars, voiceVars, chatVars>>

App_updateSettings(r) ==
  /\ \E newSettings \in Partials : updateSettings(r, newSettings)
  /\ Send(r)
  /\ phase' = AfterUpdate
  /\ UNCHANGED <<lastWrite, domVars, voiceVars, chatVars>>

App_fetchSettled(r) ==
  /\ fetchSettled(r, ResponseOutcome(r), req[r].result.flags)
  /\ Receive(r)
  /\ phase' = AfterSettled(ResponseOutcome(r))
  /\ UNCHANGED <<lastWrite, domVars, voiceVars, chatVars>>

App_persistSettled(r) ==
  /\ persistSettled(r, ResponseOutcome(r))
  /\ Receive(r)
  /\ phase' = AfterSettled(ResponseOutcome(r))
  /\ UNCHANGED <<lastWrite, domVars, voiceVars, chatVars>>

NextApp ==
  \/ App_Render
  \/ \E r \in Slots :
       \/ App_Mount(r)
       \/ App_updateSetting(r)
       \/ App_updateSettings(r)
       \/ GET_CreateUser(r)
       \/ GET_FindSettings(r)
       \/ GET_CreateSettings(r)
       \/ PUT_CreateUser(r)
       \/ PUT_Upsert(r)
       \/ App_fetchSettled(r)
       \/ App_persistSettled(r)

SpecApp == Init /\ [][NextApp]_vars

\* ----------------------------------------------------------- the document
\* The dashboard (part_001 57-65) hands the settings of each render to
\* useApplyAccessibilitySettings and settings.keyboardNav to
\* useKeyboardDetection.  After a render React runs the cleanups of the
\* effects whose dependencies changed, then the effects, in the order of
\* the hooks; nothing else runs in between.
\*
\* classList.add / classList.remove, setAttribute(.., 'true') / removeAttribute
SetClass(el, name, on) ==
  [el EXCEPT !.classList = IF on THEN @ \cup {name} ELSE @ \ {name}]

SetAttributeMut(el, name, on) ==
  [el EXCEPT !.attributes = IF on /\ name \notin @ THEN @ \cup {name} ELSE @ \ {name}]

SetAttribute(el, name, on) ==
  [el EXCEPT !.attributes = IF on THEN @ \cup {name} ELSE @ \ {name}]

\* use-apply-accessibility.ts 13-56: the effect, run on the root el.
useApplyAccessibilitySettingsMut(s, el) ==
  LET hc == SetClass(el, "high-contrast", s.highContrast)
      lt == SetClass(hc, "large-text", s.largeText)
      kn == IF s.keyboardNav
            THEN SetAttribute(SetClass(lt, "keyboard-nav", TRUE), "data-keyboard-nav", TRUE)
            ELSE lt
      sr == SetAttribute(kn, "data-screen-reader", s.screenReader)
  IN  SetAttribute(sr, "data-voice-nav", s.voiceNavigation)

useApplyAccessibilitySettings(s, el) ==
  LET hc == SetClass(el, "high-contrast", s.highContrast)
      lt == SetClass(hc, "large-text", s.largeText)
      kn == IF s.keyboardNav
            THEN SetAttribute(SetClass(lt, "keyboard-nav", TRUE), "data-keyboard-nav", TRUE)
            ELSE SetClass(SetAttribute(lt, "data-keyboard-nav", FALSE), "keyboard-nav", FALSE)
      sr == SetAttribute(kn, "data-screen-reader", s.screenReader)
  IN  SetAttribute(sr, "data-voice-nav", s.voiceNavigation)

\* The page as the two hooks see it: the root and the keyboard effect.
Page(el, kb) == [root |-> el, keyboard |-> kb]

\* use-keyboard-detection.ts 14-18
enableMut(pg) ==
  Page(SetClass(pg.root, "keyboard-nav", TRUE), [pg.keyboard EXCEPT !.autoEnabled = TRUE])

enable(pg) ==
  Page(SetAttribute(SetClass(pg.root, "keyboard-nav", TRUE), "data-keyboard-nav", TRUE),
       [pg.keyboard EXCEPT !.autoEnabled = TRUE])

\* use-keyboard-detection.ts 20-26
disable(pg) ==
  IF ~pg.keyboard.forceEnable
  THEN Page(SetClass(SetAttribute(pg.root, "data-keyboard-nav", FALSE), "keyboard-nav", FALSE),
            [pg.keyboard EXCEPT !.autoEnabled = FALSE])
  ELSE pg

\* use-keyboard-detection.ts 43-48: the cleanup of the running effect.
KeyboardCleanup(pg) == IF ~pg.keyboard.forceEnable THEN disable(pg) ELSE pg

\* use-keyboard-detection.ts 10-12 and 37: a new effect starts.
KeyboardEffect(pg, forceEnable) ==
  LET fresh == Page(pg.root, [forceEnable |-> forceEnable, autoEnabled |-> FALSE])
  IN  IF forceEnable THEN enable(fresh) ELSE fresh

\* The effects after a render with the settings s: the applier's always (s
\* is a new object), the keyboard hook's when keyboardNav has changed.
Commit(pg, s) ==
  LET changed == s.keyboardNav # pg.keyboard.forceEnable
      cleaned == IF changed THEN KeyboardCleanup(pg) ELSE pg
      done == Page(useApplyAccessibilitySettings(s, cleaned.root), cleaned.keyboard)
  IN  IF changed THEN KeyboardEffect(done, s.keyboardNav) ELSE done

AllFlags == [FieldSet -> BOOLEAN]

\* The dashboard renders with new settings (a toggle, the load's result, or
\* equal flags in a new object).
ApplySettings ==
  /\ \E s \in AllFlags :
       /\ applied' = s
       /\ root' = Commit(Page(root, keyboard), s).root
       /\ keyboard' = Commit(Page(root, keyboard), s).keyboard
  /\ lastEvent' = "render"
  /\ UNCHANGED <<serverVars, clientVars, voiceVars, chatVars>>

\* The keys pressed: Tab, and one that is not Tab.
Keys == {"Tab", "Enter"}

\* use-keyboard-detection.ts 28-30 and 39: a keydown event.
onKeyDown ==
  /\ \E key \in Keys :
       LET pg == IF key = "Tab" THEN enable(Page(root, keyboard)) ELSE Page(root, keyboard)
       IN  /\ root' = pg.root
           /\ keyboard' = pg.keyboard
           /\ lastEvent' = key
  /\ UNCHANGED <<applied, serverVars, clientVars, voiceVars, chatVars>>

\* use-keyboard-detection.ts 32-35 and 40-41: a mousemove or mousedown event.
onPointerMut ==
  /\ LET el == SetClass(SetAttribute(root, "data-keyboard-nav", FALSE), "keyboard-nav", FALSE)
     IN  IF keyboard.autoEnabled
         THEN root' = el /\ keyboard' = [keyboard EXCEPT !.autoEnabled = FALSE]
         ELSE UNCHANGED <<root, keyboard>>
  /\ \E type \in {"mousemove", "mousedown"} : lastEvent' = type
  /\ UNCHANGED <<applied, serverVars, clientVars, voiceVars, chatVars>>

onPointer ==
  /\ LET pg == IF keyboard.autoEnabled /\ ~keyboard.forceEnable
               THEN disable(Page(root, keyboard)) ELSE Page(root, keyboard)
     IN  root' = pg.root /\ keyboard' = pg.keyboard
  /\ \E type \in {"mousemove", "mousedown"} : lastEvent' = type
  /\ UNCHANGED <<applied, serverVars, clientVars, voiceVars, chatVars>>

NextDom == ApplySettings \/ onKeyDown \/ onPointer

SpecDom == Init /\ [][NextDom]_vars

\* ------------------------------------------------------ voice navigation
\* The useVoiceNavigation hook (use-voice-navigation.ts), called by the
\* dashboard with settings.voiceNavigation.  A text is the sequence of its
\* characters.  The recognizer's events are the browser's: it delivers them
\* to the handlers the hook has set, which the cleanup leaves in place.
\*
\* The characters of a transcript in the model: a letter, a capital,
\* punctuation, space.  Labels have the letter "b" as well.
Chars == {"a", "B", ".", " "}

Texts == UNION {[1..n -> Chars] : n \in 0..MaxLen}

IsSpace(c) == c = " "

\* \w of the regular expression: letters (digits and _ are not in Chars).
IsWord(c) == c \in {"a", "b", "B"}

\* String.prototype.trim
RECURSIVE trim(_)
trim(t) ==
  IF t = <<>> THEN t
  ELSE IF IsSpace(Head(t)) THEN trim(Tail(t))
  ELSE IF IsSpace(t[Len(t)]) THEN trim(SubSeq(t, 1, Len(t) - 1))
  ELSE t

\* String.prototype.toLowerCase
toLowerCase(t) == [i \in 1..Len(t) |-> IF t[i] = "B" THEN "b" ELSE t[i]]

\* transcript.replace(/[^\w\s]/g, '')
StripPunctuationMut(t) == SelectSeq(t, IsWord)

StripPunctuation(t) == SelectSeq(t, LAMBDA c : IsWord(c) \/ IsSpace(c))

\* use-voice-navigation.ts 30-32
Normalize(transcript) == StripPunctuation(toLowerCase(trim(transcript)))

\* String.prototype.includes and String.prototype.startsWith
includes(txt, s) ==
  \E i \in 0..(Len(txt) - Len(s)) : SubSeq(txt, i + 1, i + Len(s)) = s

startsWith(txt, s) == Len(s) <= Len(txt) /\ SubSeq(txt, 1, Len(s)) = s

\* Array.prototype.find: the index of the first element that passes, 0
\* (undefined) when none does.
find(hits) == IF hits = {} THEN 0 ELSE CHOOSE i \in hits : \A j \in hits : i <= j

\* use-voice-navigation.ts 37-40 and 43-46: the two searches, over the
\* elements' lowercased textContent.
findIncludes(interactive, s) ==
  find({i \in 1..Len(interactive) : includes(toLowerCase(interactive[i]), s)})

findStartsWith(interactive, s) ==
  find({i \in 1..Len(interactive) : startsWith(toLowerCase(interactive[i]), s)})

\* use-voice-navigation.ts 36-47: the element the phrase selects.
MatchMut(interactive, normalized) ==
  LET match == findStartsWith(interactive, normalized)
  IN  IF match = 0 /\ normalized # <<>>
      THEN findIncludes(interactive, normalized)
      ELSE match

Match(interactive, normalized) ==
  LET match == findIncludes(interactive, normalized)
  IN  IF match = 0 /\ normalized # <<>>
      THEN findStartsWith(interactive, normalized)
      ELSE match

\* use-voice-navigation.ts 48-55: the clicks of one onresult, in order.
Clicks(interactive, normalized) ==
  IF Match(interactive, normalized) # 0 THEN <<Match(interactive, normalized)>> ELSE <<>>

\* The documents of the model: the textContent of the elements that
\* querySelectorAll('button, a, [role="button"]') returns, in document order.
Documents ==
  { <<>>,
    << <<"a", "b">>, <<"b", "a">> >>,
    << <<"B", " ", "a">>, <<"a">>, <<>> >>,
    << <<"a", ".">>, <<"b">>, <<"b", "b">> >> }

\* A SpeechRecognition object: where its session stands, and whether stop()
\* was called on it.
NewRecognizer(state) == [state |-> state, stopped |-> FALSE]

Recognizers == 1..Len(recognizers)

\* React setState, and the history of the step.
setIsListening(v, b) == [v EXCEPT !.isListening = b]

Event(type, i) == [type |-> type, recognizer |-> i]

\* The dashboard renders with voiceNavigation true after a render with it
\* false: the effect runs (use-voice-navigation.ts 9-73).  The browser has
\* the API or not, whatever the hook reads first it reads ever after;
\* recognizer.start() returns or throws.
VoiceOn ==
  /\ ~voice.enabled
  /\ Len(recognizers) < MaxRecognizers
  /\ \E api \in {"available", "undefined"}, thrown \in BOOLEAN :
       /\ voice.SpeechRecognition \in {Unread, api}
       /\ IF api = "undefined"
          THEN /\ ~thrown
               /\ voice' = [enabled |-> TRUE, isListening |-> FALSE, SpeechRecognition |-> api]
               /\ UNCHANGED recognizers
          ELSE /\ voice' = [enabled |-> TRUE,
                            isListening |-> IF thrown THEN FALSE ELSE voice.isListening,
                            SpeechRecognition |-> api]
               /\ recognizers' =
                    Append(recognizers, NewRecognizer(IF thrown THEN "failed" ELSE "starting"))
  /\ lastVoice' = Event("on", 0)
  /\ UNCHANGED activated
  /\ UNCHANGED <<serverVars, clientVars, domVars, chatVars>>

\* The dashboard renders with voiceNavigation false after a render with it
\* true: the cleanup the effect returned runs (75-82: stop() on its
\* recognizer), then the effect with enabled false (9-12).
VoiceOff ==
  /\ voice.enabled
  /\ voice' = [voice EXCEPT !.enabled = FALSE, !.isListening = FALSE]
  /\ recognizers' =
       IF voice.SpeechRecognition = "available"
       THEN [recognizers EXCEPT ![Len(recognizers)].stopped = TRUE]
       ELSE recognizers
  /\ lastVoice' = Event("off", 0)
  /\ UNCHANGED activated
  /\ UNCHANGED <<serverVars, clientVars, domVars, chatVars>>

\* use-voice-navigation.ts 26: the session of recognizer i has started.
onstart(i) ==
  /\ recognizers[i].state = "starting"
  /\ recognizers' = [recognizers EXCEPT ![i].state = "started"]
  /\ voice' = setIsListening(voice, TRUE)
  /\ lastVoice' = Event("start", i)
  /\ UNCHANGED activated
  /\ UNCHANGED <<serverVars, clientVars, domVars, chatVars>>

\* use-voice-navigation.ts 28-59: recognizer i has a final result.
onresult(i, transcripts, documents) ==
  /\ recognizers[i].state = "started"
  /\ \E transcript \in transcripts, interactive \in documents :
       activated' = [transcript |-> transcript, document |-> interactive,
                     clicked |-> Clicks(interactive, Normalize(transcript))]
  /\ lastVoice' = Event("result", i)
  /\ UNCHANGED <<voice, recognizers>>
  /\ UNCHANGED <<serverVars, clientVars, domVars, chatVars>>

\* use-voice-navigation.ts 61-64: recognizer i reports an error (no
\* permission, no speech, the network, aborted); its session is over.
onerror(i) ==
  /\ recognizers[i].state \in {"starting", "started"}
  /\ recognizers' = [recognizers EXCEPT ![i].state = "errored"]
  /\ voice' = setIsListening(voice, FALSE)
  /\ lastVoice' = Event("error", i)
  /\ UNCHANGED activated
  /\ UNCHANGED <<serverVars, clientVars, domVars, chatVars>>

\* use-voice-navigation.ts 66: the session of recognizer i has ended: after
\* an error, by the service, or after stop() (then also before it started).
onend(i) ==
  /\ \/ recognizers[i].state \in {"started", "errored"}
     \/ recognizers[i].state = "starting" /\ recognizers[i].stopped
  /\ recognizers' = [recognizers EXCEPT ![i].state = "ended"]
  /\ voice' = setIsListening(voice, FALSE)
  /\ lastVoice' = Event("end", i)
  /\ UNCHANGED activated
  /\ UNCHANGED <<serverVars, clientVars, domVars, chatVars>>

\* The phrases said while the flag is toggled: a label, and nothing.
FewTranscripts == { <<"a", "B">>, <<".">> }

NextVoice ==
  \/ VoiceOn
  \/ VoiceOff
  \/ \E i \in Recognizers :
       \/ onstart(i)
       \/ onresult(i, FewTranscripts, Documents)
       \/ onerror(i)
       \/ onend(i)

SpecVoice == Init /\ [][NextVoice]_vars

\* One session of recognition, every transcript on every document.
NextMatch ==
  \/ VoiceOn
  \/ \E i \in Recognizers :
       \/ onstart(i)
       \/ onresult(i, Texts, Documents)

SpecMatch == Init /\ [][NextMatch]_vars

\* ------------------------------------------------------------ the chatbot
\* The chatbot page (part_000).  A message is its id and its role.  As in
\* the settings hook, handleSend sees the state of the render that made it
\* (page), and a render is a step of its own.  The timers all wait one
\* second, so they fire in the order they were set.
\*
\* What the user can have in the input: nothing, a space, a letter.
ChatInputs == {<<>>, <<" ">>, <<"a">>}

\* part_000 176 and 65-67: onChange and handleQuickPrompt call setInput.
Chat_setInput ==
  /\ \E text \in ChatInputs : text # input /\ input' = text
  /\ UNCHANGED <<messages, page, timers>>
  /\ UNCHANGED <<serverVars, clientVars, domVars, voiceVars>>

\* A render after a state change.
Chat_Render ==
  /\ page # [messages |-> messages, input |-> input]
  /\ page' = [messages |-> messages, input |-> input]
  /\ UNCHANGED <<messages, input, timers>>
  /\ UNCHANGED <<serverVars, clientVars, domVars, voiceVars>>

\* part_000 43 and 55: the ids handleSend gives the user's message and the
\* reply.
UserId(list) == Len(list) + 1

ReplyId(list) == Len(list) + 2

\* part_000 40-63: the button or Enter; nothing happens on a blank input.
handleSend ==
  /\ trim(page.input) # <<>>
  /\ Len(page.messages) < MaxMessages
  /\ Len(timers) < MaxMessages
  /\ messages' = Append(page.messages, [id |-> UserId(page.messages), role |-> "user"])
  /\ input' = <<>>
  /\ timers' = Append(timers, [id |-> ReplyId(page.messages), role |-> "assistant"])
  /\ UNCHANGED page
  /\ UNCHANGED <<serverVars, clientVars, domVars, voiceVars>>

\* part_000 53-61: a second has passed, the reply is appended to the list
\* as it is then.
Chat_Timeout ==
  /\ timers # <<>>
  /\ messages' = Append(messages, Head(timers))
  /\ timers' = Tail(timers)
  /\ UNCHANGED <<input, page>>
  /\ UNCHANGED <<serverVars, clientVars, domVars, voiceVars>>

NextChat == Chat_setInput \/ Chat_Render \/ handleSend \/ Chat_Timeout

SpecChat == Init /\ [][NextChat]_vars

\* =================================================================== claims
\* What the claims speak of, stated from the requests themselves.
Done(r) == req[r].pc = "done"

IsPut(r) == req[r].kind = "PUT"

IsGet(r) == req[r].kind = "GET"

\* The payload a body of five booleans stands for.
Payload(b) == [f \in FieldSet |-> b.val[f] = "true"]

FiveBooleans(b) == b.kind = "object" /\ \A f \in FieldSet : b.val[f] \in {"true", "false"}

\* The fields of a JSON object that hold a value of a non-boolean type.
WrongTyped(b) == {f \in FieldSet : b.val[f] \in {"string", "number", "null"}}

\* The fields of a JSON object that are left out.
Omitted(b) == {f \in FieldSet : b.val[f] = "undefined"}

RowsOf(u) == {s \in AccessibilitySettings : s.userId = u}

\* C1 (SpecSeq): round trip. A PUT of any five booleans P is answered 200, and
\* a GET served after it, with no write in between, answers 200 with exactly
\* the flags P and an updatedAt not earlier than the record's updatedAt before
\* that PUT.
C1_RoundTrip ==
  \A r \in Slots : Done(r) =>
    /\ (IsPut(r) /\ FiveBooleans(req[r].body)) =>
         /\ req[r].status = 200
         /\ req[r].result.flags = Payload(req[r].body)
    /\ (IsGet(r) /\ lastPut[req[r].userId].known /\ lastPut[req[r].userId].valid) =>
         /\ req[r].status = 200
         /\ req[r].result.flags = lastPut[req[r].userId].flags
         /\ req[r].result.updatedAt >= lastPut[req[r].userId].before

\* A GET has answered after a PUT that replaced an older record by a payload
\* with flags of both values.
C1_Witness ==
  \E r \in Slots :
    /\ Done(r) /\ IsGet(r) /\ req[r].status = 200
    /\ lastPut[req[r].userId].valid
    /\ lastPut[req[r].userId].before >= 1
    /\ req[r].result.flags["highContrast"]
    /\ ~req[r].result.flags["largeText"]
    /\ req[r].result.createdAt < req[r].result.updatedAt

\* C2 (SpecSeq): a PUT whose body leaves out exactly one of the five fields is
\* answered 400 with details naming exactly that field, and the step that
\* answers it writes nothing.
C2_OmittedFieldRejected ==
  [][\A r \in Slots :
       (~Done(r) /\ req'[r].pc = "done" /\ req'[r].kind = "PUT"
          /\ req'[r].body.kind = "object"
          /\ Cardinality(Omitted(req'[r].body)) = 1
          /\ WrongTyped(req'[r].body) = {})
       => /\ req'[r].status = 400
          /\ Len(req'[r].details) = 1
          /\ req'[r].details[1].path[1] \in Omitted(req'[r].body)
          /\ AccessibilitySettings' = AccessibilitySettings]_vars

\* C3 (Spec): as long as the only requests for a user are PUTs, every record
\* of that user holds exactly the payload of one of them, never a field-wise
\* mix; and once they have all completed, five booleans each, there is a
\* record and it holds exactly one of the payloads.
C3_NoMixedRecord ==
  \A u \in UserIds :
    LET mine == {r \in Slots : req[r].kind # "none" /\ req[r].userId = u}
    IN  (\A r \in mine : IsPut(r)) =>
          /\ \A s \in RowsOf(u) :
               \E r \in mine : req[r].body.kind = "object" /\ s.flags = Payload(req[r].body)
          /\ (mine # {} /\ \A r \in mine : Done(r) /\ FiveBooleans(req[r].body)) =>
               \E s \in RowsOf(u) : \E r \in mine : s.flags = Payload(req[r].body)

\* Two PUTs of different payloads for one user have both written.
C3_Witness ==
  \E r1, r2 \in Slots :
    /\ r1 # r2 /\ IsPut(r1) /\ IsPut(r2) /\ req[r1].userId = req[r2].userId
    /\ Done(r1) /\ Done(r2) /\ req[r1].status = 200 /\ req[r2].status = 200
    /\ req[r1].body = ObjectBody(PayloadA) /\ req[r2].body = ObjectBody(PayloadB)
    /\ \E s \in RowsOf(req[r1].userId) : s.flags = Payload(req[r1].body)

\* C4 (Spec): while the only requests are GETs, every GET that has returned
\* has returned 200 with a record, and a Settings row of its user exists.
C4_GetNeverFails ==
  (\A q \in Slots : req[q].kind \in {"none", "GET"}) =>
    \A r \in Slots : Done(r) =>
      /\ req[r].status = 200
      /\ req[r].result # NoRow
      /\ RowsOf(req[r].userId) # {}

\* C5 (Spec): a GET served with no other request of its user in service is
\* answered 200; a GET answered 200 for a user no PUT has written for carries
\* all five flags false; and any two GETs of one user answered 200 carry the
\* same record: same id, same createdAt (and, with no write for the user, the
\* same all-false flags).
C5_DefaultProvisioning ==
  \A r1 \in Slots : (Done(r1) /\ IsGet(r1) /\ (req[r1].alone \/ req[r1].status = 200)) =>
    /\ req[r1].status = 200
    /\ ~lastPut[req[r1].userId].known => req[r1].result.flags = AllFalse
    /\ req[r1].result.id # 0
    /\ \A r2 \in Slots :
         (Done(r2) /\ IsGet(r2) /\ req[r2].status = 200
            /\ req[r2].userId = req[r1].userId) =>
           /\ req[r2].result.id = req[r1].result.id
           /\ req[r2].result.createdAt = req[r1].result.createdAt
           /\ ~lastPut[req[r1].userId].known => req[r2].result = req[r1].result

\* Two GETs of one user, never written for, have both answered.
C5_Witness ==
  \E r1, r2 \in Slots :
    /\ r1 # r2 /\ IsGet(r1) /\ IsGet(r2) /\ req[r1].userId = req[r2].userId
    /\ Done(r1) /\ Done(r2) /\ req[r1].status = 200 /\ req[r2].status = 200
    /\ req[r1].alone /\ req[r2].alone
    /\ ~lastPut[req[r1].userId].known
    /\ req[r1].result.flags = AllFalse /\ req[r2].result = req[r1].result

\* C6 (SpecSeq): a GET or PUT without the x-user-id header is answered 401 at
\* once, before any table is read or written.
C6_NoHeaderUnauthorized ==
  \A r \in Slots :
    (req[r].kind # "none" /\ req[r].hdr = NoHeader) => (Done(r) /\ req[r].status = 401)

\* C7 (Spec): each userId has at most one Settings record; a user with a GET
\* or PUT answered 200 has exactly one; every record holds five booleans.
C7_OneRecordPerUser ==
  /\ \A u \in UserIds : Cardinality(RowsOf(u)) <= 1
  /\ \A r \in Slots : (Done(r) /\ req[r].status = 200) =>
       Cardinality(RowsOf(req[r].userId)) = 1
  /\ \A s \in AccessibilitySettings : s.flags \in [FieldSet -> BOOLEAN]

\* Both users have a record, one created by a GET and one by a PUT.
C7_Witness ==
  /\ \A u \in UserIds : Cardinality(RowsOf(u)) = 1
  /\ \E r1, r2 \in Slots :
       /\ IsGet(r1) /\ IsPut(r2) /\ req[r1].userId # req[r2].userId
       /\ Done(r1) /\ Done(r2) /\ req[r1].status = 200 /\ req[r2].status = 200

\* C8 (SpecSeq): no step of a PUT that validation rejects changes a table: a
\* rejected PUT for an unknown userId creates neither a User nor a Settings
\* record.
C8_RejectedPutWritesNothing ==
  [][\A r \in Slots :
       (IsPut(r) /\ req[r].body.kind = "object" /\ WrongTyped(req[r].body) # {})
       => (User' = User /\ AccessibilitySettings' = AccessibilitySettings)]_vars

\* C9 (SpecSeq): a PUT whose body holds a string, a number or null in some of
\* the five fields is answered 400 with one details entry per such field, in
\* schema order, whose path is the field, expected type boolean and received
\* type the type sent; and no step of it creates or changes a Settings record.
C9_WrongTypeRejected ==
  [][\A r \in Slots :
       (req'[r].kind = "PUT" /\ req'[r].body.kind = "object"
          /\ WrongTyped(req'[r].body) # {} /\ req'[r] # req[r])
       => /\ AccessibilitySettings' = AccessibilitySettings
          /\ req'[r].pc = "done" =>
               LET b == req'[r].body
                   d == req'[r].details
               IN  /\ req'[r].status = 400
                   /\ req'[r].error = "Validation error"
                   /\ Len(d) = Cardinality(WrongTyped(b))
                   /\ \A i \in 1..Len(d) :
                        /\ Len(d[i].path) = 1
                        /\ d[i].path[1] \in WrongTyped(b)
                        /\ d[i].expected = "boolean"
                        /\ d[i].received = b.val[d[i].path[1]]
                   /\ \A i, j \in 1..Len(d) :
                        i < j => \E m, n \in DOMAIN Fields :
                                   m < n /\ Fields[m] = d[i].path[1] /\ Fields[n] = d[j].path[1]]_vars

\* A PUT with a number in one field has been answered 400 while the user has
\* a record holding a true flag.
C9_Witness ==
  \E r \in Slots :
    /\ Done(r) /\ IsPut(r) /\ req[r].status = 400
    /\ Len(req[r].details) = 1
    /\ req[r].details[1].received = "number"
    /\ \E s \in RowsOf(req[r].userId) : s.flags["screenReader"]

\* C10 (SpecSeq): a PUT whose body is not JSON is answered 400, not 500.
C10_MalformedBodyIs400 ==
  \A r \in Slots :
    (Done(r) /\ IsPut(r) /\ req[r].body.kind = "malformed") => req[r].status = 400

\* C11 as stated (SpecSeq): a PUT whose body holds a key besides the five flags
\* is answered 400 "Validation error" and writes nothing.
C11_ExtraFieldRejected ==
  [][\A r \in Slots :
       (req'[r].kind = "PUT" /\ req'[r].body.extra /\ FiveBooleans(req'[r].body)
          /\ req'[r] # req[r])
       => /\ AccessibilitySettings' = AccessibilitySettings
          /\ req'[r].pc = "done" =>
               req'[r].status = 400 /\ req'[r].error = "Validation error"]_vars

\* C11 amended (SpecSeq): a PUT whose body holds the five flags as booleans
\* and a key besides them is accepted: the response is 200 without issues,
\* the record in it carries the five flags as sent, and it is the user's one
\* stored record; the additional key is dropped.
C11_ExtraFieldStripped ==
  [][\A r \in Slots :
       (req'[r].kind = "PUT" /\ req'[r].body.extra /\ FiveBooleans(req'[r].body)
          /\ req'[r].pc = "done" /\ req[r].pc # "done")
       => /\ req'[r].status = 200
          /\ req'[r].details = <<>>
          /\ req'[r].result.flags = Payload(req'[r].body)
          /\ DOMAIN req'[r].result.flags = FieldSet
          /\ {s \in AccessibilitySettings' : s.userId = req'[r].userId} = {req'[r].result}]_vars

\* A PUT with a sixth key has been answered, and the stored record holds the
\* flags it sent (two of them true) in place of different ones.
C11_Witness ==
  \E r \in Slots :
    /\ Done(r) /\ IsPut(r) /\ req[r].body.extra /\ FiveBooleans(req[r].body)
    /\ req[r].result \in RowsOf(req[r].userId)
    /\ req[r].result.flags = Payload(req[r].body)
    /\ Cardinality({f \in FieldSet : req[r].result.flags[f]}) = 2
    /\ req[r].result.updatedAt > req[r].result.createdAt

\* What the client claims speak of.
InFlight(kind) == {r \in Slots : fetches[r].kind = kind}

\* The step is a call of updateSetting that sent its PUT from slot r.
IsUpdateSetting(r) ==
  /\ fetches[r].kind = "none"
  /\ fetches'[r].kind = "PUT"
  /\ lastCall'.op = "updateSetting"

\* C12 (SpecClient): a call updateSetting(key, value) leaves the local flags
\* equal to the flags before the call with the one flag replaced, in the
\* step that sends the write (so before any response to it), and the one PUT
\* it sends carries exactly those five flags.
C12_OptimisticMerge ==
  [][\A r \in Slots :
       IsUpdateSetting(r) =>
         \E key \in DOMAIN lastCall'.arg :
           /\ settings' = [settings EXCEPT ![key] = lastCall'.arg[key]]
           /\ fetches'[r].data = settings'
           /\ DOMAIN fetches'[r].data = FieldSet
           /\ \A q \in Slots \ {r} : fetches'[q] = fetches[q]]_vars

\* The write of slot r fails in this step.
WriteFails(r) ==
  /\ fetches[r].kind = "PUT"
  /\ fetches'[r].kind = "none"
  /\ lastSettled' \in {"notOk", "rejected"}

\* C13 (SpecClient): when a write fails, by a response that is not ok or by a
\* rejection, error becomes a message, the local flags stay as they are and
\* no request is sent.
C13_NoRollback ==
  [][\A r \in Slots :
       WriteFails(r) =>
         /\ error' # NoError
         /\ error' \in {"Failed to save settings: 500", "Failed to fetch"}
         /\ settings' = settings
         /\ \A q \in Slots \ {r} : fetches'[q] = fetches[q]]_vars

\* The write of updateSetting("highContrast", true) has been refused by the
\* server: the flag is still on, the error is shown, nothing is in flight.
C13_Witness ==
  /\ lastCall = [op |-> "updateSetting", arg |-> "highContrast" :> TRUE]
  /\ error = "Failed to save settings: 500"
  /\ settings["highContrast"]
  /\ hook.settings["highContrast"]
  /\ \A r \in Slots : fetches[r].kind = "none"

\* The load of slot r fails in this step.
LoadFails(r) ==
  /\ fetches[r].kind = "GET"
  /\ fetches'[r].kind = "none"
  /\ lastSettled' \in {"notOk", "rejected"}

\* C14 (SpecClient): when a load fails, by a response that is not ok or by a
\* rejection, the five local flags are false, error is a message and
\* isLoading is false.
C14_FailedLoadDefaults ==
  [][\A r \in Slots :
       LoadFails(r) =>
         /\ settings' = AllFalse
         /\ error' # NoError
         /\ error' \in {"Failed to fetch settings: 500", "Failed to fetch"}
         /\ isLoading' = FALSE]_vars

\* A load has failed after the user had turned a flag on: the flags are all
\* false again, the render before showed the flag.
C14_Witness ==
  /\ error = "Failed to fetch settings: 500"
  /\ ~isLoading
  /\ settings = AllFalse
  /\ hook.settings["largeText"]
  /\ InFlight("GET") = {}

\* C15 (SpecClientFair): isLoading is true until the component mounts, and
\* whenever it is true in a mounted component it is false at some later
\* moment: no load leaves it true for ever.
C15_LoadingClears ==
  /\ [](hook.userId = Unmounted => isLoading)
  /\ (isLoading /\ hook.userId # Unmounted) ~> ~isLoading

\* The component has rendered for u2, the last load to settle was rejected,
\* no load is pending and isLoading is false.
C15_Witness ==
  /\ hook.userId = "u2"
  /\ lastSettled = "rejected"
  /\ ~isLoading
  /\ InFlight("GET") = {}
  /\ error = "Failed to fetch"

\* C16 (SpecApp): once the load has succeeded, updates have been called
\* after it, every write has been answered with success and no fetch is
\* pending, the stored flags of the user are the local flags.
C16_PersistedEqualsLocal ==
  (phase = "loaded" /\ lastCall # NoCall /\ \A r \in Slots : fetches[r].kind = "none")
    => \E s \in RowsOf(DEMO_USER) : s.flags = settings

\* What the applier claims speak of: the marker of each flag is there.
MarkerPresent(f, el) ==
  CASE f = "highContrast" -> "high-contrast" \in el.classList
    [] f = "largeText" -> "large-text" \in el.classList
    [] f = "keyboardNav" ->
         "keyboard-nav" \in el.classList /\ "data-keyboard-nav" \in el.attributes
    [] f = "screenReader" -> "data-screen-reader" \in el.attributes
    [] f = "voiceNavigation" -> "data-voice-nav" \in el.attributes

MarkerAbsent(f, el) ==
  CASE f = "highContrast" -> "high-contrast" \notin el.classList
    [] f = "largeText" -> "large-text" \notin el.classList
    [] f = "keyboardNav" ->
         "keyboard-nav" \notin el.classList /\ "data-keyboard-nav" \notin el.attributes
    [] f = "screenReader" -> "data-screen-reader" \notin el.attributes
    [] f = "voiceNavigation" -> "data-voice-nav" \notin el.attributes

\* C17 (SpecDom): on every root the page can have and for every five flags,
\* running the applier twice with the flags leaves the classes and the
\* attributes of the root as running it once does.
C17_ApplierIdempotent ==
  \A s \in AllFlags :
    useApplyAccessibilitySettings(s, useApplyAccessibilitySettings(s, root))
      = useApplyAccessibilitySettings(s, root)

\* The root carries the transient keyboard markers and two markers of flags
\* that are on: a root on which running the applier with other flags
\* removes and adds markers.
C17_Witness ==
  /\ lastEvent = "Tab"
  /\ ~applied["keyboardNav"]
  /\ root.classList = {"high-contrast", "keyboard-nav"}
  /\ root.attributes = {"data-keyboard-nav", "data-voice-nav"}

\* C18 (SpecDom): in every state of the page and for each flag that is off,
\* rendering with the flag on and then with it off again (each time the
\* applier runs, and the keyboard hook when keyboardNav changes) leaves the
\* root exactly as it was.
C18_ToggleReversible ==
  \A f \in FieldSet :
    ~applied[f] =>
      LET on == Commit(Page(root, keyboard), [applied EXCEPT ![f] = TRUE])
          off == Commit(on, applied)
      IN  off.root = root

C20_UserIsolation ==
  [][\A r \in Slots, v \in UserIds :
       (req'[r].pc # req[r].pc /\ req'[r].hdr \in UserIds /\ req'[r].hdr # v)
         => {s \in AccessibilitySettings' : s.userId = v} = RowsOf(v)]_vars

\* Two PUTs, one for each user, have been answered 200: each user's record
\* holds the flags of its own PUT, which differ from the other's.
C20_Witness ==
  \E r, q \in Slots :
    /\ Done(r) /\ IsPut(r) /\ req[r].hdr = DEMO_USER /\ req[r].status = 200
    /\ Done(q) /\ IsPut(q) /\ req[q].hdr = "u2" /\ req[q].status = 200
    /\ req[r].body # req[q].body
    /\ \E s \in RowsOf(DEMO_USER) : s.flags = Payload(req[r].body)
    /\ \E s \in RowsOf("u2") : s.flags = Payload(req[q].body)

\* C21: referential integrity.  In every state each settings row references
\* a row of "User"; a settings row is written only for a user whose row
\* existed before the write; and the step that deletes a user leaves no
\* settings row of that user.
C21_ReferentialIntegrity ==
  /\ [](\A s \in AccessibilitySettings : s.userId \in User)
  /\ [][\A s \in AccessibilitySettings' \ AccessibilitySettings :
          s.userId \in User]_vars
  /\ [][\A u \in User \ User' :
          \A s \in AccessibilitySettings' : s.userId # u]_vars

\* A record was created, and its user and the record are gone.
C21_Witness ==
  /\ nextId > 1
  /\ User = {}
  /\ AccessibilitySettings = {}

\* C22 (SpecClient): at no moment is more than one load in flight, also when
\* the component renders with another userId before the load has settled.
C22_OneReadInFlight == Cardinality(InFlight("GET")) <= 1

\* The step is a call of updateSetting or updateSettings (a PUT is sent).
IsUpdate == \E r \in Slots : fetches[r].kind = "none" /\ fetches'[r].kind = "PUT"

\* The step is the completion of a load, or of a write.
LoadSettles == \E r \in Slots : fetches[r].kind = "GET" /\ fetches'[r].kind = "none"

WriteSettles == \E r \in Slots : fetches[r].kind = "PUT" /\ fetches'[r].kind = "none"

\* C23 (SpecClient): the step in which the response to a write arrives, ok
\* or not, in any order with the other responses, leaves the five local
\* flags as they are; the flags change only in a call of updateSetting or
\* updateSettings and in the completion of a load.
C23_WriteResponseKeepsFlags ==
  /\ [][WriteSettles => settings' = settings]_vars
  /\ [][settings' # settings => IsUpdate \/ LoadSettles]_vars

\* A write was refused while a later write is still in flight: the flag the
\* user turned on is on.
C23_Witness ==
  /\ lastSettled = "notOk"
  /\ error = "Failed to save settings: 500"
  /\ InFlight("PUT") # {}
  /\ InFlight("GET") = {}
  /\ settings["largeText"]

\* Request r takes a step of its handler.
Steps(r) == req'[r].pc # req[r].pc

\* C24 (Spec): a PUT answered 200 for a user who has a record leaves the
\* record's id, userId and createdAt as they were, makes its five flags
\* those of the payload and its updatedAt not earlier than it was, and
\* leaves the other users' records alone; no step of a GET for a user who
\* has a record changes any record.
C24_UpdateInPlace ==
  [][\A r \in Slots :
       LET u == req'[r].userId
           old == FindSettings(u)
           new == IF \E s \in AccessibilitySettings' : s.userId = u
                  THEN CHOOSE s \in AccessibilitySettings' : s.userId = u
                  ELSE NoRow
       IN  /\ (/\ Steps(r)
               /\ req'[r].kind = "PUT"
               /\ req'[r].pc = "done"
               /\ req'[r].status = 200
               /\ RowsOf(u) # {})
                 => /\ new.id = old.id
                    /\ new.userId = old.userId
                    /\ new.createdAt = old.createdAt
                    /\ new.flags = Payload(req'[r].body)
                    /\ new.updatedAt >= old.updatedAt
                    /\ req'[r].result = new
                    /\ AccessibilitySettings' \ {new} = AccessibilitySettings \ {old}
           /\ (Steps(r) /\ req'[r].kind = "GET" /\ RowsOf(u) # {})
                 => AccessibilitySettings' = AccessibilitySettings]_vars

\* A GET has created a user's record, and a PUT has updated that record at a
\* later instant: same id and createdAt, the flags of the PUT's payload.
C24_Witness ==
  \E p, g \in Slots :
    /\ Done(g) /\ IsGet(g) /\ req[g].status = 200
    /\ req[g].result.flags = DefaultFlags
    /\ Done(p) /\ IsPut(p) /\ req[p].status = 200
    /\ req[p].result \in AccessibilitySettings
    /\ req[p].result.id = req[g].result.id
    /\ req[p].result.createdAt = req[g].result.createdAt
    /\ req[p].result.updatedAt > req[g].result.updatedAt
    /\ req[p].result.flags = Payload(ObjectBody(PayloadB))

\* C25 (Spec): the all-false record a GET creates never takes the place of
\* flags a PUT has written.  No step of a GET removes or changes a record;
\* and when, starting without records, a GET and a PUT of one user have
\* both been answered, the PUT with 200 and no other PUT of the user was
\* sent, the user's record holds the flags of the PUT's payload.
C25_DefaultsNeverOverwrite ==
  /\ [][\A r \in Slots :
          (Steps(r) /\ req'[r].kind = "GET")
            => AccessibilitySettings \subseteq AccessibilitySettings']_vars
  /\ [](\A p, g \in Slots :
          (/\ Done(p) /\ IsPut(p) /\ req[p].status = 200
           /\ Done(g) /\ IsGet(g) /\ req[g].userId = req[p].userId
           /\ \A q \in Slots \ {p} : ~(IsPut(q) /\ req[q].userId = req[p].userId))
            => /\ RowsOf(req[p].userId) # {}
               /\ \A s \in RowsOf(req[p].userId) : s.flags = Payload(req[p].body))

\* A GET found no record, a PUT of the same user then created it with its
\* payload, and the GET's creation of the default record was refused: the
\* record holds the payload.
C25_Witness ==
  \E p, g \in Slots :
    /\ Done(p) /\ IsPut(p) /\ req[p].status = 200
    /\ Done(g) /\ IsGet(g) /\ req[g].userId = req[p].userId
    /\ req[g].status = 500 /\ req[g].error = "P2002"
    /\ req[p].body = ObjectBody(PayloadA)
    /\ RowsOf(req[p].userId) = {req[p].result}
    /\ req[p].result.flags = Payload(req[p].body)
    /\ req[p].result.createdAt = req[p].result.updatedAt

\* C26 (SpecApp): when the load of the mount settles, with success or with
\* failure, after updateSetting(key, value) was called during it, the local
\* value of key is still value.
C26_LoadKeepsOptimistic ==
  [][(LoadSettles /\ lastCall.op = "updateSetting")
       => \A key \in DOMAIN lastCall.arg : settings'[key] = lastCall.arg[key]]_vars

\* C27 (SpecWrites): in whatever order the responses to the writes arrive,
\* when the step that answers the last write in flight leaves the write
\* issued last failed, error is a message after it; and the success of a
\* write issued earlier, arriving after the failure of the write issued
\* last, does not clear the error.
C27_FailedWriteVisible ==
  /\ [][(WriteSettles /\ InFlight("PUT")' = {} /\ lastWrite'.state = "failed")
          => error' # NoError]_vars
  /\ [][(WriteSettles /\ lastWrite.state = "failed" /\ lastSettled' = "ok"
           /\ error # NoError)
          => error' # NoError]_vars

\* C28 (SpecClient): when updateSetting(f2, v2) is called after
\* updateSetting(f1, v1), f1 and f2 distinct and the local f1 still v1, with
\* or without a render between the two calls, the local flags after the
\* second call have f1 = v1 and f2 = v2 and the PUT it sends carries both.
C28_UpdatesAccumulate ==
  [][\A r \in Slots :
       (/\ IsUpdateSetting(r)
        /\ lastCall.op = "updateSetting"
        /\ DOMAIN lastCall.arg # DOMAIN lastCall'.arg
        /\ \A f1 \in DOMAIN lastCall.arg : settings[f1] = lastCall.arg[f1])
         => /\ \A f1 \in DOMAIN lastCall.arg :
                 /\ settings'[f1] = lastCall.arg[f1]
                 /\ fetches'[r].data[f1] = lastCall.arg[f1]
            /\ \A f2 \in DOMAIN lastCall'.arg :
                 /\ settings'[f2] = lastCall'.arg[f2]
                 /\ fetches'[r].data[f2] = lastCall'.arg[f2]]_vars

\* The step is a mousemove or a mousedown; the step is a press of Tab.
IsPointer == lastEvent' \in {"mousemove", "mousedown"} /\ applied' = applied

IsTab == lastEvent' = "Tab" /\ applied' = applied

\* C29 (SpecDom): in every state in which the page's keyboardNav is true the
\* keyboard hook runs with forceEnable and the root has the class
\* keyboard-nav and the attribute data-keyboard-nav, whatever keys were
\* pressed, however the mouse moved or clicked and however the other four
\* flags changed since.
C29_ForcedOutlinesStay ==
  applied["keyboardNav"] =>
    /\ keyboard.forceEnable
    /\ "keyboard-nav" \in root.classList
    /\ "data-keyboard-nav" \in root.attributes

\* keyboardNav is on with another flag and the mouse has just been pressed:
\* the markers are there.
C29_Witness ==
  /\ applied["keyboardNav"] /\ applied["largeText"]
  /\ lastEvent = "mousedown"
  /\ keyboard.autoEnabled
  /\ MarkerPresent("keyboardNav", root)

\* C30 (SpecDom): while keyboardNav is false, a press of Tab leaves the class
\* keyboard-nav and the attribute data-keyboard-nav on the root; a mousemove
\* or mousedown that finds them there removes both; and a mousemove or
\* mousedown with no Tab pressed since the hook's effect started or since
\* the last removal changes nothing on the root.
C30_TransientOutlines ==
  /\ [][(IsTab /\ ~applied["keyboardNav"]) => MarkerPresent("keyboardNav", root')]_vars
  /\ [][(IsPointer /\ ~applied["keyboardNav"]) => MarkerAbsent("keyboardNav", root')]_vars
  /\ [][(IsPointer /\ ~keyboard.autoEnabled) => root' = root]_vars
  /\ [][IsPointer =>
          /\ root'.classList \ {"keyboard-nav"} = root.classList \ {"keyboard-nav"}
          /\ root'.attributes \ {"data-keyboard-nav"} = root.attributes \ {"data-keyboard-nav"}]_vars

\* keyboardNav is off, high contrast is on, Tab has just been pressed: the
\* transient markers are on the root beside the marker of high contrast.
C30_Witness ==
  /\ ~applied["keyboardNav"] /\ applied["highContrast"]
  /\ ~keyboard.forceEnable
  /\ lastEvent = "Tab"
  /\ keyboard.autoEnabled
  /\ root.classList = {"high-contrast", "keyboard-nav"}
  /\ root.attributes = {"data-keyboard-nav"}

\* C31 (SpecDom): a render that finds keyboardNav false and leaves it false
\* (another flag toggled, the load's result, equal flags applied again)
\* leaves the transient markers keyboard-nav and data-keyboard-nav a press of
\* Tab has put on the root: only a pointer event removes them.
C31_ApplierKeepsTransient ==
  [][(/\ lastEvent' = "render"
      /\ ~applied["keyboardNav"]
      /\ ~applied'["keyboardNav"]
      /\ MarkerPresent("keyboardNav", root))
       => MarkerPresent("keyboardNav", root')]_vars

\* C32 (SpecVoice): in every state in which voiceNavigation is false (before
\* the flag was ever on, or after the cleanup has run) isListening is false,
\* also after onstart, onend or onerror of a stopped recognizer.
C32_IdleWhenOff == ~voice.enabled => ~voice.isListening

\* The recognizer of the effect in place, when it has made one.
HasCurrent == voice.enabled /\ voice.SpeechRecognition = "available"

CurrentOver == HasCurrent /\ recognizers[Len(recognizers)].state \in {"errored", "ended"}

\* C33 (SpecVoice): while voiceNavigation stays true, once the recognizer of
\* the effect has ended or reported an error no recognizer is made or
\* started, and isListening is false, until the flag is turned off.
C33_NoRetry ==
  /\ [](CurrentOver => ~voice.isListening)
  /\ [][(CurrentOver /\ voice'.enabled)
          => /\ Len(recognizers') = Len(recognizers)
             /\ \A i \in Recognizers :
                  recognizers'[i].state = "starting" => recognizers[i].state = "starting"]_vars

\* What the last onresult worked on.
Phrase == Normalize(activated.transcript)

Labels == [i \in DOMAIN activated.document |-> toLowerCase(activated.document[i])]

Containing == {i \in DOMAIN Labels : includes(Labels[i], Phrase)}

Starting == {i \in DOMAIN Labels : startsWith(Labels[i], Phrase)}

\* C34 (SpecMatch): after an onresult, when some element's lowercased label
\* contains the normalized phrase exactly one element was activated, the
\* first such element in document order; when none contains it the first
\* whose label starts with it, if any, was activated (alone); and when no
\* label contains or starts with it nothing was activated.
C34_FirstContainingWins ==
  lastVoice.type = "result" =>
    /\ Len(activated.clicked) <= 1
    /\ Containing # {} =>
         /\ Len(activated.clicked) = 1
         /\ activated.clicked[1] \in Containing
         /\ \A j \in Containing : activated.clicked[1] <= j
    /\ (Containing = {} /\ Starting # {} /\ Phrase # <<>>) =>
         /\ Len(activated.clicked) = 1
         /\ activated.clicked[1] \in Starting
         /\ \A j \in Starting : activated.clicked[1] <= j
    /\ (Containing = {} /\ Starting = {}) => activated.clicked = <<>>

\* "B." was heard on the document whose labels are "ab", "ba": the phrase
\* is "b", the second label starts with it, the first contains it and was
\* the one activated.
C34_Witness ==
  /\ lastVoice.type = "result"
  /\ activated.transcript = <<"B", ".">>
  /\ activated.document = << <<"a", "b">>, <<"b", "a">> >>
  /\ Phrase = <<"b">>
  /\ activated.clicked = <<1>>

\* C35 (SpecMatch): after an onresult whose transcript normalizes to the
\* empty string (empty, spaces only, punctuation only) no element was
\* activated.
C35_EmptyPhraseActivatesNothing ==
  (lastVoice.type = "result" /\ Phrase = <<>>) => activated.clicked = <<>>

\* C36 (SpecChat): in every state of the chatbot page, however the sends
\* and the delayed replies interleave, no two messages of the list have the
\* same id.
C36_UniqueMessageIds ==
  \A i, j \in DOMAIN messages : i # j => messages[i].id # messages[j].id

====
